---- MODULE Spec2Model ----
(***************************************************************************)
(* Model of the caesar repository: the Vigenere primitive (vigenere.cpp)   *)
(* and the Kasiski attack (kasiski_attack.cpp).                            *)
(*                                                                         *)
(* A std::string is a sequence of character codes (ASCII), so that         *)
(* std::isalpha, std::toupper and the arithmetic on 'A' are modelled by    *)
(* what they compute.  The int products of calculate_ic keep their 32     *)
(* bits; every other int of the model stays far below the values at which  *)
(* an int of the program would overflow.                                   *)
(*                                                                         *)
(* Seven specifications share the variables:                               *)
(*   Spec        the run of main of kasiski_attack.cpp,                    *)
(*   VigSpec     vigenere_encrypt followed by vigenere_decrypt,            *)
(*   GcdFairSpec gcd_of_vector run statement by statement,                 *)
(*   BreakSpec   break_caesar_shift applied to one column,                 *)
(*   SweepSpec   test_key_lengths_ic applied to one normalized text,       *)
(*   CliSpec     the runs of main of caesar.cpp and of vigenere.cpp,       *)
(*   ToolsSpec   the runs of Spec and of CliSpec together.                 *)
(***************************************************************************)
EXTENDS Integers, Sequences, FiniteSets, TLC

VARIABLES
    \* main of kasiski_attack.cpp
    pc,                 \* "main", "cleaned", "analysed", "swept", "key_read",
                        \* "recovered", "decrypted", "exited", "aborted"
    argc,               \* 1: no file argument; 2: a file argument
    file_opens,         \* whether read_file can open argv[1]
    file,               \* the content of the file argv[1]
    input,              \* what the user supplies on std::cin, once supplied
    cin,                \* the characters of std::cin not yet read
    ciphertext,         \* the local ciphertext of main
    tetragrams,         \* find_repeated_sequences(ciphertext, 4)
    trigrams,           \* find_repeated_sequences(ciphertext, 3)
    all_distances_4,    \* the tetragram distances collected by kasiski_analysis
    all_distances_3,    \* the trigram distances collected by kasiski_analysis
    gcd_printed,        \* the printed "GCD of ... distances" values, in order
    sorted_distances,   \* the (distance, count) pairs after std::sort
    ic_scores,          \* the (key_len, avg_ic) pairs of test_key_lengths_ic
    best,               \* best->first, the reported best candidate
    key_length,         \* the int read from std::cin
    recovered_key,      \* recover_key(ciphertext, key_length)
    plaintext,          \* the decrypted text
    manual_key,         \* the line read by std::getline
    status,             \* the exit status of the process, -1 while it runs
    \* the Vigenere round trip
    v_pc,       \* "start", "encrypted", "decrypted"
    v_text,     \* the text handed to vigenere_encrypt
    v_key,      \* the key
    v_enc,      \* vigenere_encrypt(v_text, v_key)
    v_dec,      \* vigenere_decrypt(v_enc, v_key)
    \* gcd_of_vector
    g_pc,       \* "start", "for", "gcd", "done"
    numbers,    \* the argument of gcd_of_vector
    g_i,        \* the loop index i of gcd_of_vector
    g_result,   \* the local `result` of gcd_of_vector, then its return value
    g_a,        \* the parameter a of the running call of gcd
    g_b,        \* the parameter b of the running call of gcd
    \* break_caesar_shift
    b_pc,       \* "start", "done"
    b_column,   \* the argument of break_caesar_shift
    b_letter,   \* the key letter it returns
    \* test_key_lengths_ic
    t_pc,       \* "start", "done"
    t_text,     \* the argument ciphertext of test_key_lengths_ic
    t_max,      \* the argument max_length
    t_scores,   \* its local ic_scores
    t_best,     \* best->first
    \* main of caesar.cpp and of vigenere.cpp
    cli_pc,       \* "main", "validated", "read", "exited"
    cli_tool,     \* "caesar" or "vigenere"
    cli_args,     \* argv[1], argv[2], ..: the arguments after the program name
    cli_opens,    \* whether the input file can be opened
    cli_content,  \* the local content, once the input file is read
    cli_reads,    \* how many times the input file has been read
    cli_written,  \* the output files created so far, by their contents
    cli_status    \* the exit status of the process, -1 while it runs

inputVars == <<argc, file_opens, file>>

analysisVars == <<tetragrams, trigrams, all_distances_4, all_distances_3,
                  gcd_printed, sorted_distances>>

sweepVars == <<ic_scores, best>>

recoveryVars == <<key_length, recovered_key, plaintext, manual_key>>

stdinVars == <<input, cin>>

mainVars == <<pc, inputVars, stdinVars, ciphertext, analysisVars, sweepVars,
              recoveryVars, status>>

vigVars == <<v_pc, v_text, v_key, v_enc, v_dec>>

gcdVars == <<g_pc, numbers, g_i, g_result, g_a, g_b>>

breakVars == <<b_pc, b_column, b_letter>>

testVars == <<t_pc, t_text, t_max, t_scores, t_best>>

cliVars == <<cli_pc, cli_tool, cli_args, cli_opens, cli_content, cli_reads,
             cli_written, cli_status>>

vars == <<mainVars, vigVars, gcdVars, breakVars, testVars, cliVars>>

\* The variables of a part of the repository that a specification does not
\* run hold these values throughout.
MainIdle ==
    /\ pc = "idle"
    /\ argc = 1
    /\ file_opens = FALSE
    /\ file = <<>>
    /\ input = <<>>
    /\ cin = <<>>
    /\ ciphertext = <<>>
    /\ tetragrams = <<>>
    /\ trigrams = <<>>
    /\ all_distances_4 = <<>>
    /\ all_distances_3 = <<>>
    /\ gcd_printed = <<>>
    /\ sorted_distances = <<>>
    /\ ic_scores = <<>>
    /\ best = 0
    /\ key_length = 0
    /\ recovered_key = <<>>
    /\ plaintext = <<>>
    /\ manual_key = <<>>
    /\ status = -1

CliIdle ==
    /\ cli_pc = "idle"
    /\ cli_tool = "none"
    /\ cli_args = <<>>
    /\ cli_opens = FALSE
    /\ cli_content = <<>>
    /\ cli_reads = 0
    /\ cli_written = <<>>
    /\ cli_status = -1

TestIdle ==
    /\ t_pc = "idle"
    /\ t_text = <<>>
    /\ t_max = 0
    /\ t_scores = <<>>
    /\ t_best = 0

VigIdle ==
    /\ v_pc = "idle"
    /\ v_text = <<>>
    /\ v_key = <<>>
    /\ v_enc = <<>>
    /\ v_dec = <<>>

GcdIdle ==
    /\ g_pc = "idle"
    /\ numbers = <<>>
    /\ g_i = 0
    /\ g_result = 0
    /\ g_a = 0
    /\ g_b = 0

BreakIdle ==
    /\ b_pc = "idle"
    /\ b_column = <<>>
    /\ b_letter = 0

(***************************************************************************)
(* Bounds of the model.                                                    *)
(***************************************************************************)
MaxVigLen == 4      \* longest text of the Vigenere round trip
MaxVigKey == 2      \* longest key of the Vigenere round trip
MaxNum == 9         \* largest number handed to gcd_of_vector
MaxNums == 3        \* longest vector handed to gcd_of_vector
MaxFileLen == 6     \* longest enumerated ciphertext file
MaxKeyLength == 2   \* largest accepted key length typed by the user
MaxSweepText == 6    \* longest enumerated text of SweepSpec
MaxSweepLength == 3  \* largest max_length of SweepSpec
MaxColumnLen == 4   \* longest column handed to break_caesar_shift

\* 'A', 'z', ' ' and '1': an upper-case letter, a lower-case letter that
\* wraps around the alphabet, and two non-letters.
VigTextChars == {65, 122, 32, 49}
\* 'B', 'c', 'Z': key letters of both cases.
VigKeyChars == {66, 99, 90}
\* 'A' and 'n': letters 13 apart, of both cases.
FileChars == {65, 110}
\* 'A', 'N' and 'X': the letters of a column.
SweepChars == {65, 78}
ColumnChars == {65, 78, 88}

\* All sequences over S of length 0..n.
SeqsUpTo(S, n) == UNION {[1..k -> S] : k \in 0..n}

\* The elements of a sequence.
Range(s) == {s[k] : k \in DOMAIN s}

\* The greatest element of a non-empty set of numbers.
MaxOf(S) == CHOOSE m \in S : \A x \in S : x <= m

(***************************************************************************)
(* <cctype> in the "C" locale.                                             *)
(***************************************************************************)
isalpha(c) == (c >= 65 /\ c <= 90) \/ (c >= 97 /\ c <= 122)

toupper(c) == IF c >= 97 /\ c <= 122 THEN c - 32 ELSE c

\* Rest(first), the sequential composition of two parts of a loop.  The
\* set binder makes `first` a value before Rest is applied to it, which
\* keeps the evaluation by TLC from nesting once per pass of the loop.
AndThen(first, Rest(_)) == CHOOSE after \in {Rest(x) : x \in {first}} : TRUE

\* The % of C++ on int: the result has the sign of the dividend.
CMod(a, b) == IF a >= 0 THEN a % b ELSE 0 - ((0 - a) % b)

(***************************************************************************)
(* vigenere.cpp                                                            *)
(***************************************************************************)
\* The state of the loop of vigenere_process is the string `result`, rewritten
\* in place, and key_pos.
\*
\* Mutant: the key position advances on every character, letter or not.
VigStep_anychar(loop, key, direction, i) ==
    IF isalpha(loop.result[i])
    THEN LET c          == toupper(loop.result[i])
             key_letter == toupper(key[(loop.key_pos % Len(key)) + 1])
             shift      == key_letter - 65
             pos        == CMod((c - 65) + direction * shift + 26, 26)
         IN  [result  |-> [loop.result EXCEPT ![i] = pos + 65],
              key_pos |-> loop.key_pos + 1]
    ELSE [result |-> loop.result, key_pos |-> loop.key_pos + 1]

\* One pass of the loop, for the character at the (1-based) index i.
VigStep(loop, key, direction, i) ==
    IF isalpha(loop.result[i])
    THEN LET c          == toupper(loop.result[i])
             key_letter == toupper(key[(loop.key_pos % Len(key)) + 1])
             shift      == key_letter - 65
             pos        == CMod((c - 65) + direction * shift + 26, 26)
         IN  [result  |-> [loop.result EXCEPT ![i] = pos + 65],
              key_pos |-> loop.key_pos + 1]
    ELSE loop

\* The passes of the loop for the indices lo..hi, in increasing order: the
\* passes for lo..mid, then those for mid+1..hi.
RECURSIVE vigenere_loop(_, _, _, _, _)
vigenere_loop(loop, key, direction, lo, hi) ==
    IF lo > hi THEN loop
    ELSE IF lo = hi THEN VigStep(loop, key, direction, lo)
    ELSE AndThen(vigenere_loop(loop, key, direction, lo, (lo + hi) \div 2),
                 LAMBDA half : vigenere_loop(half, key, direction,
                                             ((lo + hi) \div 2) + 1, hi))

vigenere_process(text, key, direction) ==
    vigenere_loop([result |-> text, key_pos |-> 0],
                  key, direction, 1, Len(text)).result

vigenere_encrypt(text, key) == vigenere_process(text, key, 1)

\* Mutant: decryption adds the shift instead of subtracting it.
vigenere_decrypt_adds(text, key) == vigenere_process(text, key, 1)

vigenere_decrypt(text, key) == vigenere_process(text, key, -1)

(***************************************************************************)
(* kasiski_attack.cpp: gcd and gcd_of_vector                               *)
(***************************************************************************)
\* Mutant: the body of the loop forgets `a = temp`.
GcdStep_keeps_a(a, b) == <<a, CMod(a, b)>>

\* One pass through the body of the while loop of gcd: the new <<a, b>>.
GcdStep(a, b) == <<b, CMod(a, b)>>

RECURSIVE gcd(_, _)
gcd(a, b) ==
    IF b # 0 THEN LET next == GcdStep(a, b) IN gcd(next[1], next[2]) ELSE a

\* The for loop of gcd_of_vector; `loop` holds the index i (0-based) and
\* the local `result` at the head of the loop.
RECURSIVE GcdForLoop(_, _)
GcdForLoop(numbers_, loop) ==
    IF loop.i < Len(numbers_)
    THEN GcdForLoop(numbers_,
                    [i      |-> loop.i + 1,
                     result |-> gcd(loop.result, numbers_[loop.i + 1])])
    ELSE loop.result

gcd_of_vector(numbers_) ==
    IF numbers_ = <<>> THEN 1
    ELSE GcdForLoop(numbers_, [i |-> 1, result |-> numbers_[1]])

(***************************************************************************)
(* kasiski_attack.cpp: clean_text and the Kasiski method                   *)
(***************************************************************************)
\* The loop appends std::toupper(c) for every c with std::isalpha(c), in
\* the order of the text.
UpperAll(letters) == [k \in 1..Len(letters) |-> toupper(letters[k])]

clean_text(text) == UpperAll(SelectSeq(text, isalpha))

\* The indices (0-based) at which the scan `for (i = 0; i <= text.length()
\* - n; i++)` calls text.substr(i, n), in increasing order.  text.length()
\* is a size_t, so n is converted to size_t and the difference is taken
\* modulo 2^64: when the text is shorter than n it wraps to
\* 2^64 - (n - length) and the loop runs on past the end of the text, up to
\* the index length + 1 where substr throws std::out_of_range.
ScanIndices(length, n) ==
    IF length >= n
    THEN [k \in 1..(length - n + 1) |-> k - 1]
    ELSE [k \in 1..(length + 2) |-> k - 1]

\* text.substr(i, n) for i <= text.length(): at most n characters from i.
Substr(text, i, n) ==
    SubSeq(text, i + 1, IF i + n <= Len(text) THEN i + n ELSE Len(text))

\* The std::map<std::string, std::vector<int>> after the pushes
\* sequences[text.substr(i, n)].push_back(i) for the indices `visited`: a
\* function from each n-gram to the indices pushed for it, in the order
\* pushed.
PushedPositions(text, n, visited) ==
    [ngram \in {Substr(text, visited[k], n) : k \in DOMAIN visited} |->
        SelectSeq(visited, LAMBDA i : Substr(text, i, n) = ngram)]

\* The outcome of the scan over `indices`: substr throws
\* std::out_of_range at an index past the end of the text.
ScanOutcome(text, n, indices) ==
    [thrown    |-> \E k \in DOMAIN indices : indices[k] > Len(text),
     sequences |-> PushedPositions(text, n,
                      SelectSeq(indices, LAMBDA i : i <= Len(text)))]

\* The scan of find_repeated_sequences.
ScanNGrams(text, n) == ScanOutcome(text, n, ScanIndices(Len(text), n))

\* Mutant: the erase loop removes nothing.
EraseSingles_keeps_all(sequences) == sequences

\* The erase loop: the entries with fewer than 2 positions are removed.
EraseSingles(sequences) ==
    [ngram \in {k \in DOMAIN sequences : Len(sequences[k]) >= 2}
        |-> sequences[ngram]]

\* When the scan throws, the function is left by the exception and
\* returns nothing.
AfterScan(scan) ==
    IF scan.thrown
    THEN [thrown |-> TRUE, sequences |-> <<>>]
    ELSE [thrown |-> FALSE, sequences |-> EraseSingles(scan.sequences)]

find_repeated_sequences(text, n) == AfterScan(ScanNGrams(text, n))

\* The inner loop of calculate_distances for one i, from j on (0-based).
RECURSIVE DistancesFrom(_, _, _)
DistancesFrom(positions, i, j) ==
    IF j < Len(positions)
    THEN <<positions[j + 1] - positions[i + 1]>>
            \o DistancesFrom(positions, i, j + 1)
    ELSE <<>>

\* The outer loop of calculate_distances from i on (0-based).
RECURSIVE DistancesLoop(_, _)
DistancesLoop(positions, i) ==
    IF i < Len(positions)
    THEN DistancesFrom(positions, i, i + 1) \o DistancesLoop(positions, i + 1)
    ELSE <<>>

LessOne(distances) == [k \in 1..Len(distances) |-> distances[k] - 1]

\* Mutant: every distance is measured one short
\* (positions[j] - positions[i] - 1).
calculate_distances_one_short(positions) ==
    LessOne(DistancesLoop(positions, 0))

calculate_distances(positions) == DistancesLoop(positions, 0)

\* operator< of std::string: lexicographic on the characters.
StrLess(a, b) ==
    \E k \in 1..(Len(a) + 1) :
       /\ \A q \in 1..(k - 1) : q <= Len(b) /\ a[q] = b[q]
       /\ k <= Len(b)
       /\ k <= Len(a) => a[k] < b[k]

\* The keys of a std::map in iteration order.
RECURSIVE KeysInOrder(_)
KeysInOrder(keys) ==
    IF keys = {} THEN <<>>
    ELSE LET first == CHOOSE k \in keys :
                         \A other \in keys \ {k} : StrLess(k, other)
         IN  <<first>> \o KeysInOrder(keys \ {first})

\* The loop over the tetragrams: every distance of every entry, in map
\* order, is pushed onto all_distances_4.
RECURSIVE CollectDistances(_, _)
CollectDistances(sequences, order) ==
    IF order = <<>> THEN <<>>
    ELSE calculate_distances(sequences[Head(order)])
            \o CollectDistances(sequences, Tail(order))

\* The loop over the trigrams: `if (count++ >= 10) break;` leaves the loop
\* before the eleventh entry, so only the first 10 entries in map order
\* contribute to all_distances_3.
CollectShownDistances(sequences, order) ==
    CollectDistances(sequences,
                     SubSeq(order, 1, IF Len(order) < 10 THEN Len(order) ELSE 10))

\* distance_freq: the std::map<int,int> counting every collected distance.
DistanceFreq(all_distances) ==
    [d \in Range(all_distances) |->
        Cardinality({k \in DOMAIN all_distances : all_distances[k] = d})]

\* The keys of a std::map<int,int> in iteration order: ascending.
RECURSIVE Ascending(_)
Ascending(S) ==
    IF S = {} THEN <<>>
    ELSE LET least == CHOOSE x \in S : \A y \in S : x <= y
         IN  <<least>> \o Ascending(S \ {least})

\* The (distance, count) pairs of the map for the distances of `order`.
Pairs(distance_freq, order) ==
    [k \in 1..Len(order) |-> <<order[k], distance_freq[order[k]]>>]

\* Mutant: the sort is dropped, the pairs stay in map order.
SortOutcomes_unsorted(distance_freq) ==
    {Pairs(distance_freq, Ascending(DOMAIN distance_freq))}

\* std::sort of the (distance, count) pairs with the comparator
\* a.second > b.second.  std::sort is not stable: the order among pairs
\* with equal counts is unspecified, so every arrangement in which the
\* counts never increase is a possible outcome.
RECURSIVE SortArrangements(_, _)
SortArrangements(rest, distance_freq) ==
    IF rest = {} THEN {<<>>}
    ELSE LET top == {d \in rest : \A e \in rest :
                                     distance_freq[e] <= distance_freq[d]}
         IN  UNION {{<<<<d, distance_freq[d]>>>> \o tail :
                        tail \in SortArrangements(rest \ {d}, distance_freq)} :
                    d \in top}

SortOutcomes(distance_freq) ==
    SortArrangements(DOMAIN distance_freq, distance_freq)

(***************************************************************************)
(* double arithmetic.  The index of coincidence is computed on exact       *)
(* rationals <<numerator, denominator>> in lowest terms; a denominator 0   *)
(* stands for the NaN or infinity of a division by zero.                   *)
(***************************************************************************)
RECURSIVE NatGcd(_, _)
NatGcd(a, b) == IF b = 0 THEN a ELSE NatGcd(b, a % b)

RatOfPositive(n, d) ==
    LET g == NatGcd(IF n < 0 THEN 0 - n ELSE n, d)
    IN  <<n \div g, d \div g>>

\* n / d: the denominator of the result is positive unless d is 0.
Rat(n, d) ==
    IF d = 0 THEN <<n, 0>>
    ELSE IF d < 0 THEN RatOfPositive(0 - n, 0 - d)
    ELSE RatOfPositive(n, d)

RatAdd(x, y) ==
    IF x[2] = 0 \/ y[2] = 0 THEN <<0, 0>>
    ELSE LET g == NatGcd(x[2], y[2])
         IN  Rat(x[1] * (y[2] \div g) + y[1] * (x[2] \div g),
                 (x[2] \div g) * y[2])

\* x / k for an int k > 0.
RatDivInt(x, k) ==
    IF x[2] = 0 THEN x
    ELSE LET g == NatGcd(x[1], k)
         IN  Rat(x[1] \div g, x[2] * (k \div g))

\* a/b < c/d for b, d > 0, by comparing the integer parts (rounded down)
\* and then the reciprocals of the fractional parts, so that no product
\* exceeds the range of the integers of TLC.
RECURSIVE FracLess(_, _, _, _)
FracLess(a, b, c, d) ==
    IF (a \div b) # (c \div d) THEN (a \div b) < (c \div d)
    ELSE IF c % d = 0 THEN FALSE
    ELSE IF a % b = 0 THEN TRUE
    ELSE FracLess(d, c % d, b, a % b)

\* operator< on doubles: false whenever an operand is NaN.
RatLess(x, y) ==
    IF x[2] = 0 \/ y[2] = 0 THEN FALSE ELSE FracLess(x[1], x[2], y[1], y[2])

(***************************************************************************)
(* kasiski_attack.cpp: index of coincidence                                *)
(***************************************************************************)
\* The counting loop shared by calculate_ic and calculate_frequencies:
\* int counts[26], indexed here 0..25, counts[toupper(c) - 'A']++ for
\* every letter c of the text.
\* The indices toupper(c) - 'A' of the letters c of the text, in order.
LetterIndices(letters) ==
    [k \in 1..Len(letters) |-> toupper(letters[k]) - 65] \o <<>>

CountsOfIndices(indices) ==
    [i \in 0..25 |-> Len(SelectSeq(indices, LAMBDA index : index = i))]

LetterCounts(text) == CountsOfIndices(LetterIndices(SelectSeq(text, isalpha)))

RECURSIVE SumUpTo(_, _)
SumUpTo(f, i) == IF i < 0 THEN 0 ELSE f[i] + SumUpTo(f, i - 1)

\* int + int on 32 bits: a sum beyond INT_MAX or below INT_MIN comes back
\* reduced modulo 2^32.
AddInt(x, y) ==
    IF x > 0 /\ y > 0 /\ x > 2147483647 - y
       THEN (x - 2147483647 - 1) + (y - 2147483647 - 1)
    ELSE IF x < 0 /\ y < 0 /\ x < (0 - 2147483647 - 1) - y
       THEN (x + 2147483647 + 1) + (y + 2147483647 + 1)
    ELSE x + y

\* int * int on 32 bits for a >= 0 and b >= 0, by doubling.
RECURSIVE MulIntLoop(_, _)
MulIntLoop(a, b) ==
    IF b = 0 THEN 0
    ELSE LET half == MulIntLoop(a, b \div 2)
         IN  AddInt(AddInt(half, half), IF b % 2 = 1 THEN a ELSE 0)

\* The int product count * (count - 1) of lines 308 and 315, count >= 0.
MulInt(a, b) ==
    IF a = 0 \/ b = 0 THEN 0
    ELSE IF b <= 2147483647 \div a THEN a * b
    ELSE MulIntLoop(a, b)

\* sum / (total * (total - 1)) for the counts of a text: the divisor is
\* an int product, converted to double for the division.
ICOfTotals(sum, total) == Rat(sum, MulInt(total, total - 1))

\* double sum: the sum of the int products counts[i] * (counts[i] - 1).
ICOfCounts(counts) ==
    ICOfTotals(SumUpTo([i \in 0..25 |-> MulInt(counts[i], counts[i] - 1)],
                       25),
               SumUpTo(counts, 25))

calculate_ic(text) ==
    IF Len(text) < 2 THEN <<0, 1>> ELSE ICOfCounts(LetterCounts(text))

\* The characters of the text at the (0-based) positions `mine`.
Picked(text, mine) == [k \in 1..Len(mine) |-> text[mine[k] + 1]] \o <<>>

\* The positions 0..length-1 in increasing order.
Positions(length) == [k \in 1..length |-> k - 1]

\* Mutant: the character at position i goes to column (i + 1) % key_len.
SplitColumns_shifted(ciphertext_, key_len) ==
    [c \in 0..(key_len - 1) |->
        Picked(ciphertext_, SelectSeq(Positions(Len(ciphertext_)),
                                      LAMBDA i : (i + 1) % key_len = c))]

\* std::vector<std::string> columns(key_len), indexed here 0..key_len-1,
\* then the loop `columns[i % key_len] += ciphertext[i]` over the positions
\* i (0-based) in increasing order.
SplitColumns(ciphertext_, key_len) ==
    [c \in 0..(key_len - 1) |->
        Picked(ciphertext_, SelectSeq(Positions(Len(ciphertext_)),
                                      LAMBDA i : i % key_len = c))]

\* total_ic after the loop `total_ic += calculate_ic(columns[i])` has run
\* for the columns 0..i-1.
RECURSIVE TotalIC(_, _)
TotalIC(columns, i) ==
    IF i = 0 THEN <<0, 1>>
    ELSE RatAdd(TotalIC(columns, i - 1), calculate_ic(columns[i - 1]))

\* avg_ic of one pass of the loop over key_len.
AvgIC(ciphertext_, key_len) ==
    RatDivInt(TotalIC(SplitColumns(ciphertext_, key_len), key_len), key_len)

\* ic_scores after the loop: one (key_len, avg_ic) pair per key length.
ICScores(ciphertext_, max_length) ==
    [key_len \in 1..max_length |-> <<key_len, AvgIC(ciphertext_, key_len)>>]

RECURSIVE MaxElementLoop(_, _, _)
\* std::max_element with the comparator a.second < b.second: the iterator
\* moves only to a strictly greater element.
MaxElementLoop(scores, largest, it) ==
    IF it > Len(scores) THEN largest
    ELSE IF RatLess(scores[largest][2], scores[it][2])
         THEN MaxElementLoop(scores, it, it + 1)
         ELSE MaxElementLoop(scores, largest, it + 1)

\* best->first
BestCandidate(scores) == scores[MaxElementLoop(scores, 1, 2)][1]

(***************************************************************************)
(* kasiski_attack.cpp: frequency analysis.  The doubles of this part are   *)
(* fixed-point numbers counted in thousandths (8.2 is 8200): every entry   *)
(* of ENGLISH_FREQ is exact, a quotient is rounded down to a thousandth.   *)
(***************************************************************************)
ENGLISH_FREQ ==
    [i \in 0..25 |->
        <<8200, 1500, 2800, 4300, 13000, 2200, 2000, 6100, 7000, 150, 770,
          4000, 2400, 6700, 7500, 1900, 95, 6000, 6300, 9100, 2800, 980,
          2400, 150, 2000, 74>>[i + 1]]

\* freq[i] = total > 0 ? (counts[i] * 100.0) / total : 0.0
Percentages(counts, total) ==
    [i \in 0..25 |->
        IF total > 0 THEN (counts[i] * 100000) \div total ELSE 0]

PercentagesOfCounts(counts) == Percentages(counts, SumUpTo(counts, 25))

calculate_frequencies(text) == PercentagesOfCounts(LetterCounts(text))

\* (diff * diff) / expected in thousandths, for diff and expected given in
\* thousandths.  With |diff| = q * expected + r the quotient is
\* q*q*expected + 2*q*r + r*r/expected, which keeps every intermediate
\* value within the range of the integers of TLC.
QuotientOfSquare(q, r, expected) ==
    q * q * expected + 2 * q * r + ((r * r) \div expected)

SquareOverAbs(abs, expected) ==
    QuotientOfSquare(abs \div expected, abs % expected, expected)

SquareOver(diff, expected) ==
    SquareOverAbs(IF diff < 0 THEN 0 - diff ELSE diff, expected)

\* The loop of chi_squared from index i on.
RECURSIVE ChiLoop(_, _, _)
ChiLoop(observed, expected, i) ==
    IF i < 26
    THEN (IF expected[i] > 0
          THEN SquareOver(observed[i] - expected[i], expected[i])
          ELSE 0) + ChiLoop(observed, expected, i + 1)
    ELSE 0

chi_squared(observed, expected) == ChiLoop(observed, expected, 0)

\* The inner loop of break_caesar_shift: the column decrypted by `shift`.
ShiftBack(letters, shift) ==
    [k \in 1..Len(letters) |->
        65 + CMod(toupper(letters[k]) - 65 - shift + 26, 26)]

DecryptColumn(column, shift) == ShiftBack(SelectSeq(column, isalpha), shift)

\* chi2 of one pass of the loop over the shifts.
ShiftChi2(column, shift) ==
    chi_squared(calculate_frequencies(DecryptColumn(column, shift)),
                ENGLISH_FREQ)

RECURSIVE BreakLoop(_, _, _, _)
\* Mutant: a later shift with an equal chi2 replaces the best one (<=).
BreakLoop_last(column, shift, best_chi2, best_shift) ==
    IF shift < 26
    THEN LET chi2 == ShiftChi2(column, shift)
         IN  IF chi2 <= best_chi2
             THEN BreakLoop(column, shift + 1, chi2, 65 + shift)
             ELSE BreakLoop(column, shift + 1, best_chi2, best_shift)
    ELSE best_shift

\* The loop over the shifts of break_caesar_shift.
BreakLoop(column, shift, best_chi2, best_shift) ==
    IF shift < 26
    THEN LET chi2 == ShiftChi2(column, shift)
         IN  IF chi2 < best_chi2
             THEN BreakLoop(column, shift + 1, chi2, 65 + shift)
             ELSE BreakLoop(column, shift + 1, best_chi2, best_shift)
    ELSE best_shift

\* double best_chi2 = 999999.0; char best_shift = 'A';
break_caesar_shift(column) == BreakLoop(column, 0, 999999000, 65)

\* The loop of recover_key over the columns, from column i on.
RECURSIVE RecoverLoop(_, _, _)
RecoverLoop(columns, key_length_, i) ==
    IF i < key_length_
    THEN <<break_caesar_shift(columns[i])>>
            \o RecoverLoop(columns, key_length_, i + 1)
    ELSE <<>>

recover_key(ciphertext_, key_length_) ==
    RecoverLoop(SplitColumns(ciphertext_, key_length_), key_length_, 0)

\* Mutant: key_pos is never advanced.
AttackStep_key_stays(loop, key, i) ==
    IF isalpha(loop.result[i])
    THEN LET c          == toupper(loop.result[i])
             key_letter == toupper(key[(loop.key_pos % Len(key)) + 1])
             shift      == key_letter - 65
             pos        == CMod((c - 65) - shift + 26, 26)
         IN  [result  |-> [loop.result EXCEPT ![i] = pos + 65],
              key_pos |-> loop.key_pos]
    ELSE loop

\* vigenere_decrypt of kasiski_attack.cpp: its own copy of the loop.
\* key[key_pos % key.length()] with an empty key is a division by zero;
\* the model never applies the operator to an empty key.
\* One pass of the loop, for the character at the (1-based) index i.
AttackStep(loop, key, i) ==
    IF isalpha(loop.result[i])
    THEN LET c          == toupper(loop.result[i])
             key_letter == toupper(key[(loop.key_pos % Len(key)) + 1])
             shift      == key_letter - 65
             pos        == CMod((c - 65) - shift + 26, 26)
         IN  [result  |-> [loop.result EXCEPT ![i] = pos + 65],
              key_pos |-> loop.key_pos + 1]
    ELSE loop

\* The passes of the loop for the indices lo..hi, in increasing order.
RECURSIVE attack_decrypt_loop(_, _, _, _)
attack_decrypt_loop(loop, key, lo, hi) ==
    IF lo > hi THEN loop
    ELSE IF lo = hi THEN AttackStep(loop, key, lo)
    ELSE AndThen(attack_decrypt_loop(loop, key, lo, (lo + hi) \div 2),
                 LAMBDA half : attack_decrypt_loop(half, key,
                                                   ((lo + hi) \div 2) + 1, hi))

attack_vigenere_decrypt(text, key) ==
    attack_decrypt_loop([result |-> text, key_pos |-> 0],
                        key, 1, Len(text)).result

(***************************************************************************)
(* Reading an int from characters: the scan shared by operator>> of        *)
(* std::istream (kasiski_attack.cpp) and std::stoi (caesar.cpp).  Both     *)
(* skip leading white space, take an optional sign and then the longest    *)
(* run of decimal digits, and leave what follows unread.                   *)
(***************************************************************************)
isspace(c) == c \in {9, 10, 11, 12, 13, 32}

isdigit(c) == c \in 48..57

\* The first position from `from` on that holds no white space, or
\* Len(s) + 1.
RECURSIVE SkipSpaces(_, _)
SkipSpaces(s, from) ==
    IF from <= Len(s) /\ isspace(s[from]) THEN SkipSpaces(s, from + 1)
    ELSE from

\* The first position from `from` on that holds no digit, or Len(s) + 1.
RECURSIVE SkipDigits(_, _)
SkipDigits(s, from) ==
    IF from <= Len(s) /\ isdigit(s[from]) THEN SkipDigits(s, from + 1)
    ELSE from

\* The value of the digits s[from..to], or -1 when it is above INT_MAX.
RECURSIVE DigitsValue(_, _, _, _)
DigitsValue(s, from, to, acc) ==
    IF from > to THEN acc
    ELSE DigitsValue(s, from + 1, to,
                     IF acc < 0 \/ acc > 214748364 THEN 0 - 1
                     ELSE IF acc * 10 > 2147483647 - (s[from] - 48)
                          THEN 0 - 1
                     ELSE acc * 10 + (s[from] - 48))

\* The scan from the position `sign` that follows the white space: whether
\* the characters end there, whether there are digits, whether their value
\* is beyond the range of an int, the value, and the unread characters.
ScanFrom(s, sign, first) ==
    LET last == SkipDigits(s, first) - 1
        negative == first > sign /\ s[sign] = 45
        magnitude == DigitsValue(s, first, last, 0)
    IN  [at_end   |-> sign > Len(s),
         digits   |-> last >= first,
         big      |-> magnitude < 0,
         negative |-> negative,
         value    |-> IF negative THEN 0 - magnitude ELSE magnitude,
         rest     |-> SubSeq(s, last + 1, Len(s))]

ScanSigned(s, sign) ==
    ScanFrom(s, sign,
             IF sign <= Len(s) /\ s[sign] \in {43, 45} THEN sign + 1 ELSE sign)

ScanInt(s) == ScanSigned(s, SkipSpaces(s, 1))

(***************************************************************************)
(* kasiski_attack.cpp: main                                                *)
(***************************************************************************)
\* The built-in example ciphertext used when no file is named:
\* "ZVZPV TOGGE KHXSN LRYRP ZHZIO RZHZA ZCOAF PNOHF VEYHC ILCVS MGRYR SYXYR
\*  YSIEK RGBYX YRRCR IIVYH CIYBA GZSWE KDMIJ RTHVX ZIKG"
ExampleCiphertext ==
    <<
    90, 86, 90, 80, 86, 32, 84, 79, 71, 71, 69, 32, 75, 72, 88,
    83, 78, 32, 76, 82, 89, 82, 80, 32, 90, 72, 90, 73, 79, 32,
    82, 90, 72, 90, 65, 32, 90, 67, 79, 65, 70, 32, 80, 78, 79,
    72, 70, 32, 86, 69, 89, 72, 67, 32, 73, 76, 67, 86, 83, 32,
    77, 71, 82, 89, 82, 32, 83, 89, 88, 89, 82, 32, 89, 83, 73,
    69, 75, 32, 82, 71, 66, 89, 88, 32, 89, 82, 82, 67, 82, 32,
    73, 73, 86, 89, 72, 32, 67, 73, 89, 66, 65, 32, 71, 90, 83,
    87, 69, 32, 75, 68, 77, 73, 74, 32, 82, 84, 72, 86, 88, 32,
    90, 73, 75, 71 >>

\* "THEQUICKBROWNFOXJUMPSOVERTHELAZYDOG"
PangramPlaintext ==
    <<
    84, 72, 69, 81, 85, 73, 67, 75, 66, 82, 79, 87, 78, 70, 79,
    88, 74, 85, 77, 80, 83, 79, 86, 69, 82, 84, 72, 69, 76, 65,
    90, 89, 68, 79, 71 >>

\* A file holding the pangram four times over, Vigenere-encrypted with the
\* key "ABC".
PangramCiphertext ==
    vigenere_encrypt(PangramPlaintext \o PangramPlaintext
                        \o PangramPlaintext \o PangramPlaintext,
                     <<65, 66, 67>>)

\* A file with lower-case letters, blanks, digits and a line end:
\* "an a1n\nANANan"
MixedFile == <<97, 110, 32, 97, 49, 110, 10, 65, 78, 65, 78, 97, 110>>

\* "AAAAnAAA": its repeated trigram AAA lies at the distances 1, 4 and 5,
\* each of them once.
TieFile == <<65, 65, 65, 65, 110, 65, 65, 65>>

\* The contents of the ciphertext files of the model.
Files ==
    SeqsUpTo(FileChars, MaxFileLen)
       \cup {PangramCiphertext, MixedFile, TieFile}

\* What the user supplies on std::cin once the prompt is shown: nothing
\* (the input is at its end), or lines that variously hold a key length
\* that main refuses ("0", "-1", "51", "99999999999"), no number ("x"), a
\* key length alone, a key length and a manual key ("2", "N"), a number
\* followed by other characters ("2xN", "1.5") or an input without line end
\* (" +2").
StdinContents ==
    {<<>>, <<48, 10>>, <<45, 49, 10>>, <<53, 49, 10>>, <<120, 10>>,
     <<57, 57, 57, 57, 57, 57, 57, 57, 57, 57, 57, 10>>}
       \cup {<<48 + k, 10, 10>> : k \in 1..MaxKeyLength}
       \cup {<<50, 10, 78, 10>>, <<49, 10, 97, 98, 10>>, <<50, 120, 78, 10>>,
             <<49, 46, 53, 10>>, <<32, 43, 50>>}

\* std::cin >> key_length: what is stored in key_length, if anything.  At
\* the end of the input nothing is stored; without digits 0 is stored; a
\* value beyond the range of int is stored as the nearest int.
ExtractKeyLength(scan) ==
    [stored |-> ~scan.at_end,
     value  |-> IF ~scan.digits THEN 0
                ELSE IF scan.big
                     THEN (IF scan.negative THEN 0 - 2147483647 - 1
                           ELSE 2147483647)
                ELSE scan.value,
     rest   |-> scan.rest]

\* The values an int that was never assigned can hold.
Indeterminate == {0 - 1, 0, 51} \cup 1..MaxKeyLength

\* std::cin.ignore(): one character is dropped, if there is one.
Ignore(unread) == IF unread = <<>> THEN <<>> ELSE Tail(unread)

\* std::getline(std::cin, manual_key): the characters before the first
\* line end.
GetLine(unread) ==
    SubSeq(unread, 1,
           CHOOSE n \in 0..Len(unread) :
              /\ \A k \in 1..n : unread[k] # 10
              /\ n = Len(unread) \/ unread[n + 1] = 10)

Init ==
    /\ pc = "main"
    /\ \/ argc = 1 /\ file_opens = FALSE /\ file = <<>>
       \/ argc = 2 /\ file_opens = FALSE /\ file = <<>>
       \/ argc = 2 /\ file_opens = TRUE /\ file \in Files
    /\ input = <<>>
    /\ cin = <<>>
    /\ ciphertext = <<>>
    /\ tetragrams = <<>>
    /\ trigrams = <<>>
    /\ all_distances_4 = <<>>
    /\ all_distances_3 = <<>>
    /\ gcd_printed = <<>>
    /\ sorted_distances = <<>>
    /\ ic_scores = <<>>
    /\ best = 0
    /\ key_length = 0
    /\ recovered_key = <<>>
    /\ plaintext = <<>>
    /\ manual_key = <<>>
    /\ status = -1
    /\ VigIdle
    /\ GcdIdle
    /\ BreakIdle
    /\ TestIdle
    /\ CliIdle

\* Lines 574-593: the ciphertext is read from the file (read_file exits with
\* status 1 when the file cannot be opened) or taken from the example, then
\* cleaned.
LoadCiphertext ==
    /\ pc = "main"
    /\ IF argc > 1 /\ ~file_opens
       THEN /\ pc' = "exited"
            /\ status' = 1
            /\ UNCHANGED ciphertext
       ELSE /\ ciphertext' = clean_text(IF argc > 1 THEN file
                                        ELSE ExampleCiphertext)
            /\ pc' = "cleaned"
            /\ UNCHANGED status
    /\ UNCHANGED <<inputVars, stdinVars, analysisVars, sweepVars, recoveryVars,
                   vigVars, gcdVars, breakVars,
                   testVars, cliVars>>

\* The printed GCD lines of kasiski_analysis: one per non-empty collection.
GcdLines(distances_4, distances_3) ==
    (IF distances_4 # <<>> THEN <<gcd_of_vector(distances_4)>> ELSE <<>>)
       \o (IF distances_3 # <<>> THEN <<gcd_of_vector(distances_3)>> ELSE <<>>)

\* Line 598: kasiski_analysis(ciphertext).  An exception thrown by
\* find_repeated_sequences is caught nowhere: std::terminate aborts the
\* process.
KasiskiAnalysis ==
    /\ pc = "cleaned"
    /\ LET found_4 == find_repeated_sequences(ciphertext, 4)
           found_3 == find_repeated_sequences(ciphertext, 3)
           dist_4  == CollectDistances(found_4.sequences,
                                       KeysInOrder(DOMAIN found_4.sequences))
           dist_3  == CollectShownDistances(found_3.sequences,
                                       KeysInOrder(DOMAIN found_3.sequences))
       IN  IF found_4.thrown \/ found_3.thrown
           THEN /\ pc' = "aborted"
                /\ status' = 134
                /\ UNCHANGED analysisVars
           ELSE /\ tetragrams' = found_4.sequences
                /\ trigrams' = found_3.sequences
                /\ all_distances_4' = dist_4
                /\ all_distances_3' = dist_3
                /\ gcd_printed' = GcdLines(dist_4, dist_3)
                /\ sorted_distances' \in SortOutcomes(DistanceFreq(dist_3 \o dist_4))
                /\ pc' = "analysed"
                /\ UNCHANGED status
    /\ UNCHANGED <<inputVars, stdinVars, ciphertext, sweepVars, recoveryVars,
                   vigVars, gcdVars, breakVars,
                   testVars, cliVars>>

\* Line 603: test_key_lengths_ic(ciphertext, 15).
TestKeyLengthsIC ==
    /\ pc = "analysed"
    /\ ic_scores' = ICScores(ciphertext, 15)
    /\ best' = BestCandidate(ICScores(ciphertext, 15))
    /\ pc' = "swept"
    /\ UNCHANGED <<inputVars, stdinVars, ciphertext, analysisVars, recoveryVars, status,
                   vigVars, gcdVars, breakVars,
                   testVars, cliVars>>

\* Lines 612-618: std::cin >> key_length.  At the end of the input nothing
\* is stored and key_length keeps the indeterminate value of an int that
\* was never assigned.
ReadKeyLength(content, extracted) ==
    /\ pc = "swept"
    /\ input' = content
    /\ cin' = extracted.rest
    /\ key_length' \in (IF extracted.stored THEN {extracted.value}
                        ELSE Indeterminate)
    /\ IF key_length' <= 0 \/ key_length' > 50
       THEN pc' = "exited" /\ status' = 0
       ELSE pc' = "key_read" /\ UNCHANGED status
    /\ UNCHANGED <<inputVars, ciphertext, analysisVars, sweepVars,
                   recovered_key, plaintext, manual_key,
                   vigVars, gcdVars, breakVars, testVars, cliVars>>

\* Line 623: recover_key(ciphertext, key_length).
RecoverKey ==
    /\ pc = "key_read"
    /\ recovered_key' = recover_key(ciphertext, key_length)
    /\ pc' = "recovered"
    /\ UNCHANGED <<inputVars, stdinVars, ciphertext, analysisVars, sweepVars,
                   key_length, plaintext, manual_key, status, vigVars, gcdVars, breakVars,
                   testVars, cliVars>>

\* Line 632: vigenere_decrypt(ciphertext, recovered_key).
Decrypt ==
    /\ pc = "recovered"
    /\ plaintext' = attack_vigenere_decrypt(ciphertext, recovered_key)
    /\ pc' = "decrypted"
    /\ UNCHANGED <<inputVars, stdinVars, ciphertext, analysisVars, sweepVars,
                   key_length, recovered_key, manual_key, status,
                   vigVars, gcdVars, breakVars,
                   testVars, cliVars>>

\* Lines 643-653: the manual key is read; a non-empty key decrypts again.
ManualKey(line) ==
    /\ pc = "decrypted"
    /\ manual_key' = line
    /\ cin' = SubSeq(Ignore(cin), Len(line) + 2, Len(Ignore(cin)))
    /\ plaintext' = IF line # <<>>
                    THEN attack_vigenere_decrypt(ciphertext, line)
                    ELSE plaintext
    /\ pc' = "exited"
    /\ status' = 0
    /\ UNCHANGED <<inputVars, input, ciphertext, analysisVars, sweepVars,
                   key_length, recovered_key,
                   vigVars, gcdVars, breakVars, testVars, cliVars>>

Next ==
    \/ LoadCiphertext
    \/ KasiskiAnalysis
    \/ TestKeyLengthsIC
    \/ \E content \in StdinContents :
          ReadKeyLength(content, ExtractKeyLength(ScanInt(content)))
    \/ RecoverKey
    \/ Decrypt
    \/ ManualKey(GetLine(Ignore(cin)))

Spec == Init /\ [][Next]_vars

(***************************************************************************)
(* break_caesar_shift applied to one column.                               *)
(***************************************************************************)
BreakInit ==
    /\ b_pc = "start"
    /\ b_column \in SeqsUpTo(ColumnChars, MaxColumnLen)
    /\ b_letter = 0
    /\ MainIdle
    /\ VigIdle
    /\ GcdIdle
    /\ TestIdle
    /\ CliIdle

BreakCaesarShift ==
    /\ b_pc = "start"
    /\ b_letter' = break_caesar_shift(b_column)
    /\ b_pc' = "done"
    /\ UNCHANGED <<b_column, mainVars, vigVars, gcdVars, testVars, cliVars>>

BreakNext == BreakCaesarShift

BreakSpec == BreakInit /\ [][BreakNext]_vars

(***************************************************************************)
(* Round trip of the Vigenere primitive.                                   *)
(***************************************************************************)
VigInit ==
    /\ v_pc = "start"
    /\ v_text \in SeqsUpTo(VigTextChars, MaxVigLen)
    /\ v_key \in SeqsUpTo(VigKeyChars, MaxVigKey) \ {<<>>}
    /\ v_enc = <<>>
    /\ v_dec = <<>>
    /\ MainIdle
    /\ GcdIdle
    /\ BreakIdle
    /\ TestIdle
    /\ CliIdle

VigEncrypt ==
    /\ v_pc = "start"
    /\ v_enc' = vigenere_encrypt(v_text, v_key)
    /\ v_pc' = "encrypted"
    /\ UNCHANGED <<v_text, v_key, v_dec, mainVars, gcdVars, breakVars, testVars, cliVars>>

VigDecrypt ==
    /\ v_pc = "encrypted"
    /\ v_dec' = vigenere_decrypt(v_enc, v_key)
    /\ v_pc' = "decrypted"
    /\ UNCHANGED <<v_text, v_key, v_enc, mainVars, gcdVars, breakVars, testVars, cliVars>>

VigNext == VigEncrypt \/ VigDecrypt

VigSpec == VigInit /\ [][VigNext]_vars

(***************************************************************************)
(* gcd_of_vector run statement by statement.                               *)
(***************************************************************************)
GcdInit ==
    /\ g_pc = "start"
    /\ numbers \in SeqsUpTo(0..MaxNum, MaxNums) \cup {<<12, 18>>}
    /\ g_i = 0
    /\ g_result = 0
    /\ g_a = 0
    /\ g_b = 0
    /\ MainIdle
    /\ VigIdle
    /\ BreakIdle
    /\ TestIdle
    /\ CliIdle

\* if (numbers.empty()) return 1; int result = numbers[0];
GovEnter ==
    /\ g_pc = "start"
    /\ IF numbers = <<>>
       THEN g_result' = 1 /\ g_i' = g_i /\ g_pc' = "done"
       ELSE g_result' = numbers[1] /\ g_i' = 1 /\ g_pc' = "for"
    /\ UNCHANGED <<numbers, g_a, g_b, mainVars, vigVars, breakVars, testVars, cliVars>>

\* i < numbers.size(): call gcd(result, numbers[i]); otherwise return.
GovFor ==
    /\ g_pc = "for"
    /\ IF g_i < Len(numbers)
       THEN g_a' = g_result /\ g_b' = numbers[g_i + 1] /\ g_pc' = "gcd"
       ELSE g_a' = g_a /\ g_b' = g_b /\ g_pc' = "done"
    /\ UNCHANGED <<numbers, g_i, g_result, mainVars, vigVars, breakVars, testVars, cliVars>>

\* while (b != 0) { temp = b; b = a % b; a = temp; }
GcdLoop ==
    /\ g_pc = "gcd"
    /\ g_b # 0
    /\ g_a' = GcdStep(g_a, g_b)[1]
    /\ g_b' = GcdStep(g_a, g_b)[2]
    /\ UNCHANGED <<g_pc, numbers, g_i, g_result, mainVars, vigVars, breakVars, testVars, cliVars>>

\* return a; result = <the value returned>; i++
GcdReturn ==
    /\ g_pc = "gcd"
    /\ g_b = 0
    /\ g_result' = g_a
    /\ g_i' = g_i + 1
    /\ g_pc' = "for"
    /\ UNCHANGED <<numbers, g_a, g_b, mainVars, vigVars, breakVars, testVars, cliVars>>

GcdNext == GovEnter \/ GovFor \/ GcdLoop \/ GcdReturn

GcdSpec == GcdInit /\ [][GcdNext]_vars

\* The program is sequential and runs until it returns.
GcdFairSpec == GcdSpec /\ WF_vars(GcdNext)

(***************************************************************************)
(* Claims about the Vigenere primitive.                                    *)
(***************************************************************************)
\* The text with every letter upper-cased.
UpperCased(t) == [p \in 1..Len(t) |-> toupper(t[p])]

\* The number of letters of t before position p.
LettersBefore(t, p) == Cardinality({q \in 1..(p - 1) : isalpha(t[q])})

\* C1: decrypting the encryption of a text with the same non-empty
\* letters-only key gives the text with every letter upper-cased, and a
\* non-letter position holds the character of the text after encrypt and
\* after decrypt.
C1_RoundTrip ==
    /\ v_pc \in {"encrypted", "decrypted"} =>
          /\ Len(v_enc) = Len(v_text)
          /\ \A p \in 1..Len(v_text) :
                ~isalpha(v_text[p]) => v_enc[p] = v_text[p]
    /\ v_pc = "decrypted" =>
          /\ v_dec = UpperCased(v_text)
          /\ \A p \in 1..Len(v_text) :
                ~isalpha(v_text[p]) => v_dec[p] = v_text[p]

C1_Witness ==
    /\ v_pc = "decrypted"
    /\ Len(v_key) = 2
    /\ v_text = <<122, 32, 65, 49>>
    /\ v_enc # UpperCased(v_text)
    /\ v_dec = <<90, 32, 65, 49>>

\* The shift (0..25) of the key letter used for the k-th letter of a text.
KeyShift(key, k) == toupper(key[(k % Len(key)) + 1]) - 65

\* The letter at distance d (any integer) from the upper-case form of c.
Shifted(c, d) == 65 + ((toupper(c) - 65 + d) % 26)

\* C2: the k-th letter of the text (letters counted from 0) is shifted by
\* the key letter at index k mod key length, added when encrypting and
\* subtracted when decrypting, modulo 26; a non-letter is copied unchanged
\* and does not advance the key position.
C2_KeyAlignment ==
    /\ v_pc \in {"encrypted", "decrypted"} =>
          \A p \in 1..Len(v_text) :
             IF isalpha(v_text[p])
             THEN v_enc[p] = Shifted(v_text[p],
                                     KeyShift(v_key, LettersBefore(v_text, p)))
             ELSE v_enc[p] = v_text[p]
    /\ v_pc = "decrypted" =>
          \A p \in 1..Len(v_enc) :
             IF isalpha(v_enc[p])
             THEN v_dec[p] = Shifted(v_enc[p],
                                     0 - KeyShift(v_key, LettersBefore(v_enc, p)))
             ELSE v_dec[p] = v_enc[p]

\* A text whose second letter follows a non-letter, under a two-letter key
\* with distinct shifts: 'A' ' ' 'z' 'A' with key "Bc" gives "B BB".
C2_Witness ==
    /\ v_pc = "decrypted"
    /\ v_text = <<65, 32, 122, 65>>
    /\ v_key = <<66, 99>>
    /\ v_enc = <<66, 32, 66, 66>>

(***************************************************************************)
(* SweepSpec: test_key_lengths_ic applied to one normalized text.          *)
(***************************************************************************)
\* A normalized text of 46344 letters: its letter at position i (0-based)
\* is 'A' + ((i % 26) * (i / 26 + 1)) % 26.
LongText ==
    [k \in 1..46344 |->
        65 + ((((k - 1) % 26) * (((k - 1) \div 26) + 1)) % 26)]

SweepTexts == SeqsUpTo(SweepChars, MaxSweepText) \cup {LongText}

SweepInit ==
    /\ t_pc = "start"
    /\ t_text \in SweepTexts
    /\ t_max \in 1..MaxSweepLength
    /\ t_scores = <<>>
    /\ t_best = 0
    /\ MainIdle
    /\ VigIdle
    /\ GcdIdle
    /\ BreakIdle
    /\ CliIdle

\* test_key_lengths_ic(t_text, t_max)
TestKeyLengths(scores) ==
    /\ t_pc = "start"
    /\ t_scores' = scores
    /\ t_best' = BestCandidate(scores)
    /\ t_pc' = "done"
    /\ UNCHANGED <<t_text, t_max, mainVars, vigVars, gcdVars, breakVars,
                   cliVars>>

SweepNext == TestKeyLengths(ICScores(t_text, t_max))

SweepSpec == SweepInit /\ [][SweepNext]_vars

(***************************************************************************)
(* CliSpec: main of caesar.cpp and main of vigenere.cpp.                   *)
(***************************************************************************)
\* caesar_encrypt of caesar.cpp, lines 7-20.
caesar_encrypt(text, shift) ==
    [k \in 1..Len(text) |->
        IF isalpha(text[k])
        THEN CMod((toupper(text[k]) - 65) + shift + 26, 26) + 65
        ELSE text[k]]

\* The file name "f".
FileName == <<102>>

\* argv[2] of caesar: "3", "-25", "25", "0", "+3", "26", "-26", "abc", "",
\* "99999999999", "3abc", "5.5", " 7".
ShiftArgs ==
    {<<51>>, <<45, 50, 53>>, <<50, 53>>, <<48>>, <<43, 51>>, <<50, 54>>,
     <<45, 50, 54>>, <<97, 98, 99>>, <<>>,
     <<57, 57, 57, 57, 57, 57, 57, 57, 57, 57, 57>>,
     <<51, 97, 98, 99>>, <<53, 46, 53>>, <<32, 55>>}

CaesarArgs == {<<>>, <<FileName>>} \cup {<<FileName, sh>> : sh \in ShiftArgs}

ModeEncrypt == <<101, 110, 99, 114, 121, 112, 116>>

ModeDecrypt == <<100, 101, 99, 114, 121, 112, 116>>

\* argv[1] of vigenere: "encrypt", "decrypt", "bogus".
ModeArgs == {ModeEncrypt, ModeDecrypt, <<98, 111, 103, 117, 115>>}

\* argv[3] of vigenere: "", "A1", "ab", "B", "z!".
KeyArgs == {<<>>, <<65, 49>>, <<97, 98>>, <<66>>, <<122, 33>>}

VigenereArgs ==
    {<<>>, <<ModeEncrypt>>, <<ModeEncrypt, FileName>>}
       \cup {<<m, FileName, k>> : m \in ModeArgs, k \in KeyArgs}

\* The contents of the input file: "", "Hi z", "A".
CliFiles == {<<>>, <<72, 105, 32, 122>>, <<65>>}

CliInit ==
    /\ cli_pc = "main"
    /\ \/ cli_tool = "caesar" /\ cli_args \in CaesarArgs
       \/ cli_tool = "vigenere" /\ cli_args \in VigenereArgs
    /\ cli_opens \in BOOLEAN
    /\ cli_content = <<>>
    /\ cli_reads = 0
    /\ cli_written = <<>>
    /\ cli_status = -1
    /\ MainIdle
    /\ VigIdle
    /\ GcdIdle
    /\ BreakIdle
    /\ TestIdle

CliExit(code) ==
    /\ cli_pc' = "exited"
    /\ cli_status' = code

\* std::stoi and the range test of caesar.cpp, lines 52-62: std::stoi
\* throws without digits and beyond the range of int, and returns the
\* value of the leading number otherwise.
ShiftAccepted(scan) ==
    /\ scan.digits
    /\ ~scan.big
    /\ scan.value >= 0 - 25
    /\ scan.value <= 25

\* caesar.cpp, lines 44-62: the argument count and the shift.
CaesarParse ==
    /\ cli_pc = "main"
    /\ cli_tool = "caesar"
    /\ IF Len(cli_args) < 2 THEN CliExit(1)
       ELSE IF ~ShiftAccepted(ScanInt(cli_args[2])) THEN CliExit(1)
       ELSE cli_pc' = "validated" /\ UNCHANGED cli_status
    /\ UNCHANGED <<cli_tool, cli_args, cli_opens, cli_content, cli_reads,
                   cli_written, mainVars, vigVars, gcdVars, breakVars,
                   testVars>>

\* vigenere.cpp, lines 94-114: the argument count and the key.
VigenereParse ==
    /\ cli_pc = "main"
    /\ cli_tool = "vigenere"
    /\ IF Len(cli_args) < 3 THEN CliExit(1)
       ELSE IF cli_args[3] = <<>> THEN CliExit(1)
       ELSE IF \E k \in 1..Len(cli_args[3]) : ~isalpha(cli_args[3][k])
            THEN CliExit(1)
       ELSE cli_pc' = "validated" /\ UNCHANGED cli_status
    /\ UNCHANGED <<cli_tool, cli_args, cli_opens, cli_content, cli_reads,
                   cli_written, mainVars, vigVars, gcdVars, breakVars,
                   testVars>>

\* read_file (caesar.cpp line 68, vigenere.cpp line 116): exit(1) when the
\* file cannot be opened.
CliReadFile(text) ==
    /\ cli_pc = "validated"
    /\ IF cli_opens
       THEN /\ cli_content' = text
            /\ cli_reads' = cli_reads + 1
            /\ cli_pc' = "read"
            /\ UNCHANGED cli_status
       ELSE /\ CliExit(1)
            /\ UNCHANGED <<cli_content, cli_reads>>
    /\ UNCHANGED <<cli_tool, cli_args, cli_opens, cli_written,
                   mainVars, vigVars, gcdVars, breakVars, testVars>>

\* write_file: exit(1) when the output file cannot be opened.
CliWriteFile(processed, can_open) ==
    IF can_open
    THEN cli_written' = Append(cli_written, processed) /\ CliExit(0)
    ELSE UNCHANGED cli_written /\ CliExit(1)

\* caesar.cpp, lines 69-76.
CaesarProcess(can_open) ==
    /\ cli_pc = "read"
    /\ cli_tool = "caesar"
    /\ CliWriteFile(caesar_encrypt(cli_content, ScanInt(cli_args[2]).value),
                    can_open)
    /\ UNCHANGED <<cli_tool, cli_args, cli_opens, cli_content, cli_reads,
                   mainVars, vigVars, gcdVars, breakVars, testVars>>

\* vigenere.cpp, lines 118-139: the mode is looked at after the file is read.
VigenereProcess(can_open) ==
    /\ cli_pc = "read"
    /\ cli_tool = "vigenere"
    /\ IF cli_args[1] = ModeEncrypt
       THEN CliWriteFile(vigenere_encrypt(cli_content, cli_args[3]), can_open)
       ELSE IF cli_args[1] = ModeDecrypt
       THEN CliWriteFile(vigenere_decrypt(cli_content, cli_args[3]), can_open)
       ELSE UNCHANGED cli_written /\ CliExit(1)
    /\ UNCHANGED <<cli_tool, cli_args, cli_opens, cli_content, cli_reads,
                   mainVars, vigVars, gcdVars, breakVars, testVars>>

CliNext ==
    \/ CaesarParse
    \/ VigenereParse
    \/ \E text \in CliFiles : CliReadFile(text)
    \/ \E can_open \in BOOLEAN : CaesarProcess(can_open)
    \/ \E can_open \in BOOLEAN : VigenereProcess(can_open)

CliSpec == CliInit /\ [][CliNext]_vars

\* The runs of the three programs together: a run is one of kasiski_attack
\* or one of caesar or vigenere.
ToolsInit == Init \/ CliInit

ToolsNext == Next \/ CliNext

ToolsSpec == ToolsInit /\ [][ToolsNext]_vars

(***************************************************************************)
(* Claims about the Kasiski analysis.                                      *)
(***************************************************************************)
\* C3: find_repeated_sequences(text, n) returns an empty mapping, without
\* faulting, whenever the normalized text is shorter than n, for n = 3 and
\* n = 4: kasiski_analysis comes back from a text shorter than 4 letters
\* with no tetragram, and from a text shorter than 3 letters with no trigram.
C3_ShortTextYieldsEmpty ==
    (pc \in {"analysed", "aborted"} /\ Len(ciphertext) < 4) =>
        /\ pc = "analysed"
        /\ tetragrams = <<>>
        /\ Len(ciphertext) < 3 => trigrams = <<>>

\* The offsets i, 0 <= i and i + n <= length, at which the n-gram starts.
Starts(text, ngram) ==
    {i \in 0..(Len(text) - Len(ngram)) :
        SubSeq(text, i + 1, i + Len(ngram)) = ngram}

\* The length-n substrings of the text.
NGramsOf(text, n) == {SubSeq(text, i + 1, i + n) : i \in 0..(Len(text) - n)}

\* The mapping holds exactly the n-grams that start at two or more offsets,
\* each with all of its offsets in strictly increasing order.
ExactlyTheRepeated(text, n, found) ==
    /\ DOMAIN found
          = {g \in NGramsOf(text, n) : Cardinality(Starts(text, g)) >= 2}
    /\ \A g \in DOMAIN found :
          /\ Len(found[g]) >= 2
          /\ Range(found[g]) = Starts(text, g)
          /\ \A k \in 1..(Len(found[g]) - 1) : found[g][k] < found[g][k + 1]

\* The distances of k positions: k * (k - 1) / 2 of them, all positive.
DistancesOfPairs(positions, distances) ==
    /\ 2 * Len(distances) = Len(positions) * (Len(positions) - 1)
    /\ \A k \in 1..Len(distances) : distances[k] > 0

\* C13: for a normalized text of length >= n, find_repeated_sequences
\* returns exactly the length-n substrings that start at two or more
\* positions, each mapped to the complete list of its start offsets in
\* strictly increasing order, no entry having fewer than 2 positions; and
\* calculate_distances on an entry of k positions yields k * (k - 1) / 2
\* distances, all strictly positive.  Stated of the two calls of
\* kasiski_analysis, n = 4 and n = 3.
C13_RepeatedSequences ==
    pc = "analysed" =>
        /\ Len(ciphertext) >= 4
        /\ ExactlyTheRepeated(ciphertext, 4, tetragrams)
        /\ ExactlyTheRepeated(ciphertext, 3, trigrams)
        /\ \A g \in DOMAIN tetragrams :
              DistancesOfPairs(tetragrams[g], calculate_distances(tetragrams[g]))
        /\ \A g \in DOMAIN trigrams :
              DistancesOfPairs(trigrams[g], calculate_distances(trigrams[g]))

\* "AAAANAAA": AAA starts at 0, 1 and 5, AAAA only at 0.
C13_Witness ==
    /\ pc = "analysed"
    /\ ciphertext = <<65, 65, 65, 65, 78, 65, 65, 65>>
    /\ tetragrams = <<>>
    /\ DOMAIN trigrams = {<<65, 65, 65>>}
    /\ trigrams[<<65, 65, 65>>] = <<0, 1, 5>>
    /\ calculate_distances(trigrams[<<65, 65, 65>>]) = <<1, 5, 4>>

\* Every pairwise distance of every entry is in the collection.
DistancesRetained(found, collected) ==
    \A g \in DOMAIN found :
       \A i, j \in 1..Len(found[g]) :
          i < j => \E k \in 1..Len(collected) :
                      collected[k] = found[g][j] - found[g][i]

\* The trigram GCD line is printed when there is a repeated trigram, and
\* the printed value divides every distance of every repeated trigram.
TrigramGcdOfAll ==
    trigrams # <<>> =>
        /\ gcd_printed # <<>>
        /\ \A g \in DOMAIN trigrams :
              \A i, j \in 1..Len(trigrams[g]) :
                 i < j => (trigrams[g][j] - trigrams[g][i])
                             % gcd_printed[Len(gcd_printed)] = 0

\* C14: in kasiski_analysis the distance collection used for the GCD and
\* for the merged histogram contains the pairwise distances of every
\* retained n-gram, for n = 4 and for n = 3 alike: no repeated trigram's
\* distances are left out of the trigram GCD or of the histogram, however
\* many repeated trigrams the ciphertext has.
C14_AllDistancesCollected ==
    pc = "analysed" =>
        /\ DistancesRetained(tetragrams, all_distances_4)
        /\ DistancesRetained(trigrams, all_distances_3)
        /\ TrigramGcdOfAll
        /\ DistancesRetained(trigrams,
                             [k \in 1..Len(sorted_distances) |->
                                 sorted_distances[k][1]])

\* C9: for the pangram repeated 4 times and encrypted with the key "ABC",
\* every distance between repeated tetragrams is a multiple of 3 and the
\* gcd over all tetragram distances is 105 (the claim as amended).
C9_PangramGcd ==
    (pc = "analysed" /\ Len(file) = 140 /\ file = PangramCiphertext) =>
        /\ all_distances_4 # <<>>
        /\ \A d \in Range(all_distances_4) : d % 3 = 0
        /\ gcd_of_vector(all_distances_4) = 105
        /\ gcd_printed[1] = 105

\* C9 as stated: the gcd over all tetragram distances equals 3.
C9_PangramGcdIs3 ==
    (pc = "analysed" /\ Len(file) = 140 /\ file = PangramCiphertext) =>
        /\ all_distances_4 # <<>>
        /\ \A d \in Range(all_distances_4) : d % 3 = 0
        /\ gcd_of_vector(all_distances_4) = 3

C9_Witness ==
    /\ pc = "analysed"
    /\ file = PangramCiphertext
    /\ Cardinality(DOMAIN tetragrams) = 32
    /\ Len(all_distances_4) = 32
    /\ \A k \in 1..32 : all_distances_4[k] = 105
    /\ gcd_printed[1] = 105

\* The lines of the histogram that kasiski_analysis prints: the first 10
\* pairs at most.
Shown(sorted) == SubSeq(sorted, 1, IF Len(sorted) < 10 THEN Len(sorted) ELSE 10)

\* C10 (as amended): the histogram lists distinct distance values, each with
\* the number of times it was collected, in descending order of that count;
\* the order among distances with equal counts is not fixed.
C10_DescendingCounts ==
    pc = "analysed" =>
        /\ \A i, j \in 1..Len(Shown(sorted_distances)) :
              i < j => /\ sorted_distances[i][2] >= sorted_distances[j][2]
                       /\ sorted_distances[i][1] # sorted_distances[j][1]
        /\ \A i \in 1..Len(sorted_distances) :
              sorted_distances[i][2] =
                 Cardinality({k \in 1..Len(all_distances_3 \o all_distances_4) :
                    (all_distances_3 \o all_distances_4)[k]
                       = sorted_distances[i][1]})
        /\ Len(sorted_distances)
              = Cardinality(Range(all_distances_3 \o all_distances_4))

\* C10 as stated: descending order of count and, among equal counts,
\* ascending order of distance.
C10_TiesAscending ==
    pc = "analysed" =>
        \A i, j \in 1..Len(Shown(sorted_distances)) :
           i < j => \/ sorted_distances[i][2] > sorted_distances[j][2]
                    \/ /\ sorted_distances[i][2] = sorted_distances[j][2]
                       /\ sorted_distances[i][1] < sorted_distances[j][1]

\* Two distances with equal counts, the greater distance listed first.
C10_Witness ==
    /\ pc = "analysed"
    /\ \E i \in 1..(Len(Shown(sorted_distances)) - 1) :
          /\ sorted_distances[i][2] = sorted_distances[i + 1][2]
          /\ sorted_distances[i][1] > sorted_distances[i + 1][1]

(***************************************************************************)
(* Claims about the index of coincidence and the column split.             *)
(***************************************************************************)
\* The number of unordered pairs among n things: n * (n - 1) / 2.
PairsAmong(n) == IF n % 2 = 0 THEN (n \div 2) * (n - 1) ELSE n * ((n - 1) \div 2)

\* The number of times a letter occurs in a column of upper-case letters.
Occurrences(column, letter) == Len(SelectSeq(column, LAMBDA ch : ch = letter))

\* The unordered pairs of positions of the column that hold the same letter.
SamePairs(column) ==
    SumUpTo([i \in 0..25 |-> PairsAmong(Occurrences(column, 65 + i))], 25)

\* ic is 0 for a column of fewer than 2 letters and otherwise the sum over
\* the letters of count * (count - 1) divided by N * (N - 1), which is the
\* quotient of the two numbers of unordered pairs.
ICAgrees(ic, N, pairs) ==
    IF N < 2 THEN ic = <<0, 1>>
    ELSE ic = Rat(pairs, PairsAmong(N))

ICAgreesOnAll(columns) ==
    \A c \in DOMAIN columns :
       ICAgrees(calculate_ic(columns[c]), Len(columns[c]),
                SamePairs(columns[c]))

\* C4: calculate_ic returns 0, dividing by nothing, for a column with fewer
\* than 2 letters; for a column with N >= 2 letters it returns the sum over
\* the letters of count * (count - 1), divided by N * (N - 1); the column
\* "AAAA" scores exactly 1.  Stated of every column of every split that
\* test_key_lengths_ic makes of a normalized text.
C4_IndexOfCoincidence ==
    t_pc = "done" =>
        /\ \A L \in 1..t_max : ICAgreesOnAll(SplitColumns(t_text, L))
        /\ t_text = <<65, 65, 65, 65>> => t_scores[1][2] = <<1, 1>>

\* The columns give back the text: character floor(i / L) of column i mod L
\* is character i of the text; the lengths of the columns sum to the length
\* of the text and differ by at most 1.
Lossless(text, columns, L) ==
    /\ \A i \in 0..(Len(text) - 1) :
          /\ (i \div L) + 1 <= Len(columns[i % L])
          /\ columns[i % L][(i \div L) + 1] = text[i + 1]
    /\ SumUpTo([c \in 0..(L - 1) |-> Len(columns[c])], L - 1) = Len(text)
    /\ \A c, d \in 0..(L - 1) : Len(columns[c]) - Len(columns[d]) <= 1

\* C5: for every L >= 1 the column split of the normalized text is lossless.
C5_SplitLossless ==
    pc = "swept" =>
        \A L \in 1..15 : Lossless(ciphertext, SplitColumns(ciphertext, L), L)

\* "ANANAN" in 2 columns: "AAA" and "NNN"; in 4 columns: "AA", "NN", "A", "N".
C5_Witness ==
    /\ pc = "swept"
    /\ ciphertext = <<65, 78, 65, 78, 65, 78>>
    /\ SplitColumns(ciphertext, 2)[1] = <<78, 78, 78>>
    /\ SplitColumns(ciphertext, 4)[1] = <<78, 78>>
    /\ SplitColumns(ciphertext, 4)[3] = <<78>>

\* The sum of the index of coincidence over the columns c, c-1, .., 0.
RECURSIVE SumICDown(_, _)
SumICDown(columns, c) ==
    IF c < 0 THEN <<0, 1>>
    ELSE RatAdd(calculate_ic(columns[c]), SumICDown(columns, c - 1))

\* score is the mean of the per-column values and lies in [0, 1].
IsMeanIC(score, columns, L) ==
    /\ score[2] > 0
    /\ 0 <= score[1]
    /\ score[1] <= score[2]
    /\ Rat(score[1] * L, score[2]) = SumICDown(columns, L - 1)

\* C8: test_key_lengths_ic produces one score per candidate length
\* L = 1..max_length in ascending L, each the mean of the per-column values of
\* the L-column split and within [0, 1]; the best candidate has the maximum
\* score and is the smallest length that has it.
C8_SweepScores ==
    t_pc = "done" =>
        /\ Len(t_scores) = t_max
        /\ \A L \in 1..t_max :
              /\ t_scores[L][1] = L
              /\ IsMeanIC(t_scores[L][2], SplitColumns(t_text, L), L)
        /\ t_best \in 1..t_max
        /\ \A L \in 1..t_max :
              /\ ~RatLess(t_scores[t_best][2], t_scores[L][2])
              /\ L < t_best => RatLess(t_scores[L][2], t_scores[t_best][2])

(***************************************************************************)
(* Claims about break_caesar_shift.                                        *)
(***************************************************************************)
\* The percentage (in thousandths) of the letter of rank i in a column of
\* upper-case letters decrypted by s.
PercentAfter(column, s, i) ==
    IF column = <<>> THEN 0
    ELSE (Cardinality({k \in DOMAIN column : (column[k] - 65 - s) % 26 = i})
             * 100000) \div Len(column)

\* The chi-squared distance between the letter percentages of the column
\* decrypted by s and the reference table.
ChiDistance(column, s) ==
    SumUpTo([i \in 0..25 |->
                SquareOver(PercentAfter(column, s, i) - ENGLISH_FREQ[i],
                           ENGLISH_FREQ[i])], 25)

\* s attains the minimum of chi over the shifts and is the smallest shift
\* that does.
SmallestMinimum(chi, s) ==
    \A t \in 0..25 : /\ chi[s] <= chi[t]
                     /\ t < s => chi[s] < chi[t]

\* C7: for every column, the empty one included, break_caesar_shift returns
\* a letter 'A'..'Z' whose shift attains the minimum over the 26 shifts of
\* the chi-squared distance, and the smallest shift among those that do.
C7_MinimalChiSquared ==
    b_pc = "done" =>
        /\ b_letter \in 65..90
        /\ SmallestMinimum([t \in 0..25 |-> ChiDistance(b_column, t)],
                           b_letter - 65)

\* "AN": the shifts 9 and 22 give the same distribution; 'J' is returned.
C7_Witness ==
    /\ b_pc = "done"
    /\ b_column = <<65, 78>>
    /\ b_letter = 74
    /\ ChiDistance(b_column, 9) = ChiDistance(b_column, 22)

(***************************************************************************)
(* Claims about the command lines.                                         *)
(***************************************************************************)
\* The first line of what the user supplied, blanks left out.
SuppliedLine(content) == SelectSeq(GetLine(content), LAMBDA c : c # 32)

Unsigned(token) ==
    IF token # <<>> /\ token[1] \in {43, 45} THEN Tail(token) ELSE token

\* The token is a number: an optional sign and decimal digits, nothing else.
IsNumber(token) ==
    /\ Unsigned(token) # <<>>
    /\ \A k \in 1..Len(Unsigned(token)) : isdigit(Unsigned(token)[k])

\* The digits without their leading zeros.
Significant(digits) ==
    SubSeq(digits,
           1 + CHOOSE n \in 0..Len(digits) :
                  /\ \A k \in 1..n : digits[k] = 48
                  /\ n = Len(digits) \/ digits[n + 1] # 48,
           Len(digits))

\* The digits write a number of lo..hi, for 0 < lo and hi < 100.
DigitsWithin(digits, lo, hi) ==
    /\ Len(digits) \in 1..2
    /\ LET n == IF Len(digits) = 1 THEN digits[1] - 48
                ELSE (digits[1] - 48) * 10 + (digits[2] - 48)
       IN  lo <= n /\ n <= hi

\* The user supplied a key length of 1..50.
SuppliesKeyLength(content) ==
    /\ IsNumber(SuppliedLine(content))
    /\ SuppliedLine(content)[1] # 45
    /\ DigitsWithin(Significant(Unsigned(SuppliedLine(content))), 1, 50)

\* The token is a number of -25..25.
SignedWithin25(token) ==
    /\ IsNumber(token)
    /\ \/ \A k \in 1..Len(Unsigned(token)) : Unsigned(token)[k] = 48
       \/ DigitsWithin(Significant(Unsigned(token)), 1, 25)

\* The shift argument, blanks left out, is a number of -25..25.
ShiftInRange(arg) == SignedWithin25(SelectSeq(arg, LAMBDA c : c # 32))

\* The key argument is not empty and holds letters only.
KeyWellFormed(key) == key # <<>> /\ \A k \in 1..Len(key) : isalpha(key[k])

\* The run ended with a non-zero status, or has not started, and no file
\* was read or created.
RefusedUntouched ==
    /\ cli_pc \in {"main", "exited"}
    /\ cli_pc = "exited" => cli_status # 0
    /\ cli_reads = 0
    /\ cli_written = <<>>

\* C12: in the Caesar tool a shift argument that is non-numeric or outside
\* [-25, 25] ends the run with a non-zero status before the input file is
\* read and before an output file is created; in the Vigenere tool so does
\* an empty key, a key with a non-letter, or a missing argument.
C12_ArgumentErrors ==
    /\ (cli_tool = "caesar" /\ Len(cli_args) >= 2
           /\ ~ShiftInRange(cli_args[2])) => RefusedUntouched
    /\ (cli_tool = "vigenere"
           /\ (Len(cli_args) < 3 \/ ~KeyWellFormed(cli_args[3])))
          => RefusedUntouched

\* C11: when the supplied key length is 0, negative, greater than 50 or not
\* a number, the program exits with status 0 and runs neither the key
\* recovery nor the decryption nor the manual-key prompt; recovery and
\* decryption run only after a key length of 1..50 has been read, and only
\* after the Kasiski analysis and the sweep, in this order.
C11_KeyLengthGate ==
    [][/\ (pc = "swept" /\ pc' # "swept" /\ ~SuppliesKeyLength(input')) =>
            /\ pc' = "exited"
            /\ status' = 0
            /\ recovered_key' = <<>>
            /\ plaintext' = <<>>
            /\ manual_key' = <<>>
       /\ pc' = "key_read" => pc = "swept" /\ key_length' \in 1..50
       /\ (pc' = "recovered" /\ pc # "recovered") => pc = "key_read"
       /\ (pc' = "decrypted" /\ pc # "decrypted") => pc = "recovered"
       /\ (pc' = "swept" /\ pc # "swept") => pc = "analysed"
       /\ (pc' = "analysed" /\ pc # "analysed") => pc = "cleaned"]_vars

(***************************************************************************)
(* Claims about gcd_of_vector.                                             *)
(***************************************************************************)
\* d divides every element of the set S of numbers.
DividesAll(d, S) == \A x \in S : x % d = 0

\* The letters of the text at the offsets i with i mod n = c, in order.
ColumnOf(text, n, c) ==
    LET at == SelectSeq([k \in 1..Len(text) |-> k] \o <<>>,
                        LAMBDA k : (k - 1) % n = c)
    IN  [j \in 1..Len(at) |-> text[at[j]]]

\* recover_key has run in this state.
KeyRecovered ==
    \/ pc \in {"recovered", "decrypted"}
    \/ pc = "exited" /\ recovered_key # <<>>

\* The recovered key: key_length >= 1 letters 'A'..'Z', letter i the one
\* break_caesar_shift finds for column i.
RecoveredKeyWellFormed ==
    /\ key_length >= 1
    /\ Len(recovered_key) = key_length
    /\ \A i \in 0..(key_length - 1) :
          /\ recovered_key[i + 1] \in 65..90
          /\ recovered_key[i + 1]
                = break_caesar_shift(ColumnOf(ciphertext, key_length, i))

\* The plaintext is the ciphertext with the letter at offset i shifted back
\* by the key letter of index i mod key_length.
DecryptedByColumnLetter ==
    /\ Len(plaintext) = Len(ciphertext)
    /\ \A i \in 0..(Len(ciphertext) - 1) :
          plaintext[i + 1]
             = 65 + (((ciphertext[i + 1] - 65)
                         - (recovered_key[(i % key_length) + 1] - 65) + 26) % 26)

\* The key argument of the Vigenere tool is empty.
EmptyKeyArgument ==
    cli_tool = "vigenere" /\ Len(cli_args) >= 3 /\ cli_args[3] = <<>>

\* C15: in every run of the Kasiski program and of the Vigenere tool the
\* Vigenere primitive is never invoked with an empty key: recover_key is
\* called with key_length >= 1 and its key has exactly key_length letters
\* 'A'..'Z', letter i coming from column i; the manual key is used only
\* when it is not empty; the Vigenere tool rejects an empty key before it
\* reads or writes a file; and position i of the cleaned ciphertext is
\* decrypted with the key letter of index i mod key_length.
C15_NeverAnEmptyKey ==
    /\ pc = "key_read" => key_length >= 1
    /\ KeyRecovered => RecoveredKeyWellFormed
    /\ (pc = "decrypted" \/ (KeyRecovered /\ pc = "exited" /\ manual_key = <<>>))
          => DecryptedByColumnLetter
    /\ (pc = "exited" /\ manual_key # <<>>)
          => plaintext = attack_vigenere_decrypt(ciphertext, manual_key)
    /\ (pc \in {"exited", "aborted"} /\ recovered_key = <<>>)
          => plaintext = <<>> /\ manual_key = <<>>
    /\ EmptyKeyArgument
          => /\ cli_pc \in {"main", "exited"}
             /\ cli_reads = 0
             /\ cli_written = <<>>
             /\ cli_pc = "exited" => cli_status = 1
    /\ (cli_tool = "vigenere" /\ cli_pc \in {"validated", "read"})
          => cli_args[3] # <<>>

\* The answers "2", then an empty line: a key of two different letters is
\* recovered and the text is decrypted with it, the manual key unused.
C15_Witness ==
    /\ pc = "exited"
    /\ key_length = 2
    /\ Len(recovered_key) = 2
    /\ recovered_key[1] # recovered_key[2]
    /\ manual_key = <<>>
    /\ Len(plaintext) = Len(ciphertext)
    /\ Len(ciphertext) >= 4

\* C6: gcd_of_vector returns 1 for an empty collection; for a non-empty
\* collection of positive integers it returns the greatest integer that
\* divides every element; and for all non-negative inputs the loop of gcd
\* terminates, so gcd_of_vector returns.
C6_GcdOfVector ==
    /\ [](g_pc = "done" =>
            /\ numbers = <<>> => g_result = 1
            /\ (numbers # <<>> /\ \A x \in Range(numbers) : x > 0) =>
                  /\ g_result > 0
                  /\ DividesAll(g_result, Range(numbers))
                  /\ \A d \in 1..MaxOf(Range(numbers)) :
                        DividesAll(d, Range(numbers)) => d <= g_result)
    /\ <>(g_pc = "done")

C6_Witness ==
    /\ g_pc = "done"
    /\ numbers = <<12, 18>>
    /\ g_result = 6

====
